---- MODULE Spec2Model ----
(***************************************************************************)
(* GitHub-Repo-Analyzer: the API client and the aggregator of              *)
(* src/github_analyzer.py (class GitHubRepoAnalyzer) and the part of       *)
(* src/app.py that drives them.                                            *)
(*                                                                         *)
(* Time is counted in tenths of a second (time.sleep(0.6) is 6 tenths).    *)
(* A nullable value is a sequence: None is <<>>, a present value v is <<v>>.*)
(* A nullable string is the string itself or Null.                         *)
(***************************************************************************)
EXTENDS Integers, Sequences, FiniteSets, TLC

\* ------------------------------------------------------------------ bounds
MaxRepos == 2
MaxPages == 1
MaxRateLimited == 1
MaxFaults == 2
MaxListed == 7
MaxRetries == 3

\* ------------------------------------------------------- program constants
per_page == 100
ThrottleDelay == 6
RetryBuffer == 100
DefaultResetDelay == 600
ActiveDays == 90
DefaultRateLimit == 60

\* ------------------------------------------------------------------ values
None == <<>>
Some(v) == <<v>>
Null == "null"

\* a Python value that is a list or None
NoneList == [isNone |-> TRUE, value |-> <<>>]
List(l) == [isNone |-> FALSE, value |-> l]

Min(a, b) == IF a < b THEN a ELSE b
Max(a, b) == IF a > b THEN a ELSE b

\* str.lower(), letter by letter
UpperCase ==
  <<"A", "B", "C", "D", "E", "F", "G", "H", "I", "J", "K", "L", "M",
    "N", "O", "P", "Q", "R", "S", "T", "U", "V", "W", "X", "Y", "Z">>
LowerCase ==
  <<"a", "b", "c", "d", "e", "f", "g", "h", "i", "j", "k", "l", "m",
    "n", "o", "p", "q", "r", "s", "t", "u", "v", "w", "x", "y", "z">>

Lower(c) ==
  IF \E i \in 1..Len(UpperCase) : UpperCase[i] = c
    THEN LowerCase[CHOOSE i \in 1..Len(UpperCase) : UpperCase[i] = c]
    ELSE c

lower(text) == [i \in 1..Len(text) |-> Lower(text[i])]

\* Python's `needle in hay` for strings
Contains(hay, needle) ==
  \E i \in 0..(Len(hay) - Len(needle)) :
     \A j \in 1..Len(needle) : hay[i + j] = needle[j]

rate_limit == <<"r", "a", "t", "e", " ", "l", "i", "m", "i", "t">>

\* bodies a server sends with a response that is not a 200
RateLimitText == <<"A", "P", "I", " ", "R", "a", "t", "e", " ", "L", "i", "m", "i", "t">>
NotFoundText == <<"N", "o", "t", " ", "F", "o", "u", "n", "d">>
EmptyText == <<>>

Body(t, j) == [text |-> t, json |-> j]

\* the "content" of a README response: whether the key holds a non-empty
\* string, whether base64.b64decode accepts it, whether the bytes are UTF-8,
\* and the text they spell
Content(p, b, u, t) == [present |-> p, padded |-> b, utf8 |-> u, text |-> t]
NoContent == Content(FALSE, TRUE, TRUE, <<>>)
DockerText == <<"D", "o", "c", "k", "e", "r", " ", "d", "o", "c", "k", "e", "r">>
ReadmeContents ==
  { NoContent, Content(TRUE, TRUE, TRUE, DockerText),
    Content(TRUE, FALSE, TRUE, <<>>), Content(TRUE, TRUE, FALSE, <<>>) }

\* README texts of up to two words, and the empty text
Words ==
  { <<"D", "o", "c", "k", "e", "r">>, <<"d", "o", "c", "k", "e", "r">>,
    <<"D", "j", "a", "n", "g", "o">>,
    <<"J", "a", "v", "a", "S", "c", "r", "i", "p", "t">> }
ReadmeTexts == {<<>>} \cup Words \cup {a \o <<" ">> \o b : a \in Words, b \in Words}
TextContents == {NoContent} \cup {Content(TRUE, TRUE, TRUE, t) : t \in ReadmeTexts}

\* JSON objects carrying "message" and bodies that are no JSON at all
ErrorBodies ==
  { Body(RateLimitText, "dict"), Body(NotFoundText, "dict"), Body(EmptyText, "invalid") }

ErrorStatuses == {204, 403, 404}

\* ------------------------------------------------------------ repositories
DayTenths == 864000
StartClock == 400 * DayTenths + 3000

\* an ISO timestamp: the day it names and the time of day in seconds
Stamp(daysAgo, secs) == [day |-> 400 - daysAgo, sec |-> secs]

RepoPool ==
  << [name |-> 0, owner |-> "u", language |-> Null, stargazers_count |-> 2,
      forks_count |-> 0, size |-> 0, watchers_count |-> 0,
      open_issues_count |-> 0, license |-> Null, fork |-> TRUE,
      archived |-> TRUE, description |-> Null,
      created_at |-> Stamp(300, 0), updated_at |-> Stamp(90, 86399)],
     [name |-> 0, owner |-> "u", language |-> "Python", stargazers_count |-> 10,
      forks_count |-> 2, size |-> 7, watchers_count |-> 10,
      open_issues_count |-> 1, license |-> "mit", fork |-> FALSE,
      archived |-> FALSE, description |-> "d",
      created_at |-> Stamp(200, 0), updated_at |-> Stamp(89, 0)],
     [name |-> 0, owner |-> "u", language |-> "Python", stargazers_count |-> 5,
      forks_count |-> 1, size |-> 3, watchers_count |-> 5,
      open_issues_count |-> 0, license |-> "mit", fork |-> FALSE,
      archived |-> FALSE, description |-> "d",
      created_at |-> Stamp(10, 0), updated_at |-> Stamp(0, 0)],
     [name |-> 0, owner |-> "u", language |-> "Go", stargazers_count |-> 0,
      forks_count |-> 0, size |-> 1, watchers_count |-> 1,
      open_issues_count |-> 2, license |-> "apache-2.0", fork |-> TRUE,
      archived |-> FALSE, description |-> Null,
      created_at |-> Stamp(100, 0), updated_at |-> Stamp(91, 0)] >>

\* the listing a server holds: repo i of the listing is named i
Named(rs) == [i \in 1..Len(rs) |-> [rs[i] EXCEPT !.name = i]]

\* the listings of up to m repos that go round the pool
Rotations(m) ==
  {Named([n \in 1..k |-> RepoPool[((j + n - 2) % Len(RepoPool)) + 1]]) :
     j \in 1..Len(RepoPool), k \in 0..m}

SmallListings == Rotations(MaxRepos)
LongListings == Rotations(MaxListed)

BigListing(n) == Named([i \in 1..n |-> RepoPool[((i - 1) % Len(RepoPool)) + 1]])

BigListings ==
  {BigListing(k * per_page + d) : k \in 0..MaxPages, d \in {0, 1, per_page - 1}}

\* what GET /users/{u}/repos?page=p&per_page=n returns for a static listing
PageOf(l, p, n) == SubSeq(l, (p - 1) * n + 1, Min(p * n, Len(l)))

\* the urls of lines 54, 65, 87, 95, 101, 107 and 290: the operation, the page
\* or the repository it names, and the per_page parameter where there is one
Url(o, a) ==
  [op |-> o, arg |-> a,
   per_page |-> IF o \in {"get_user_repos", "get_repo_commits"} THEN per_page ELSE 0]

\* --------------------------------------------------------------- counters
\* a collections.Counter: its keys in insertion order, each with its count
HasKey(c, k) == \E n \in 1..Len(c) : c[n].key = k

\* Counter.update([k])
CounterAdd(c, k) ==
  IF HasKey(c, k)
    THEN [n \in 1..Len(c) |->
            IF c[n].key = k THEN [key |-> k, count |-> c[n].count + 1] ELSE c[n]]
    ELSE Append(c, [key |-> k, count |-> 1])

\* Counter.update(ks)
RECURSIVE CounterUpdate(_, _)
CounterUpdate(c, ks) ==
  IF ks = <<>> THEN c ELSE CounterUpdate(CounterAdd(c, Head(ks)), Tail(ks))

\* the last key, in insertion order, of the highest count
most_common_last(c) ==
  IF c = <<>> THEN <<>>
  ELSE LET n == CHOOSE n \in 1..Len(c) :
                  /\ \A m \in 1..Len(c) : c[m].count <= c[n].count
                  /\ \A m \in (n + 1)..Len(c) : c[m].count < c[n].count
       IN  <<c[n]>>

\* Counter.most_common(1): the first key, in insertion order, of the highest count
most_common(c) ==
  IF c = <<>> THEN <<>>
  ELSE LET n == CHOOSE n \in 1..Len(c) :
                  /\ \A m \in 1..Len(c) : c[m].count <= c[n].count
                  /\ \A m \in 1..(n - 1) : c[m].count < c[n].count
       IN  <<c[n]>>

\* a / b of Python before it is rounded: the numerator and the denominator
Frac(a, b) == [num |-> a, den |-> b]

\* ---- the doubles of Python: binary64, round to nearest, ties to even
\* a positive double is (1 + frac / 2^52) * 2^exp; its 52 fraction bits are
\* held as Limbs digits of LimbBits bits, the most significant first
LimbBits == 13
Limbs == 4
Base == 2^LimbBits
FloatZero == [exp |-> 0, frac |-> <<>>]

\* floor(log2(a / b)) for a, b > 0
RECURSIVE Exponent(_, _)
Exponent(a, b) ==
  IF a >= 2 * b THEN Exponent(a, 2 * b) + 1
  ELSE IF a < b THEN Exponent(2 * a, b) - 1
  ELSE 0

\* frac + 1 and the carry out of it
Incr(f) ==
  LET c4 == IF f[4] + 1 = Base THEN 1 ELSE 0
      c3 == IF f[3] + c4 = Base THEN 1 ELSE 0
      c2 == IF f[2] + c3 = Base THEN 1 ELSE 0
      c1 == IF f[1] + c2 = Base THEN 1 ELSE 0
  IN  [frac |-> <<(f[1] + c2) % Base, (f[2] + c3) % Base, (f[3] + c4) % Base,
                  (f[4] + 1) % Base>>,
       carry |-> c1]

\* frac - 1 and the borrow out of it
Decr(f) ==
  LET b4 == IF f[4] = 0 THEN 1 ELSE 0
      b3 == IF f[3] - b4 < 0 THEN 1 ELSE 0
      b2 == IF f[2] - b3 < 0 THEN 1 ELSE 0
      b1 == IF f[1] - b2 < 0 THEN 1 ELSE 0
  IN  [frac |-> <<(f[1] - b2) % Base, (f[2] - b3) % Base, (f[3] - b4) % Base,
                  (f[4] - 1) % Base>>,
       carry |-> b1]

\* the double above a positive double
FloatUp(x) ==
  LET r == Incr(x.frac)
  IN  [exp |-> x.exp + r.carry, frac |-> r.frac]

\* the double below a positive double
FloatDown(x) ==
  LET r == Decr(x.frac)
  IN  [exp |-> x.exp - r.carry, frac |-> r.frac]

\* round to nearest, ties to even: half is the first bit cut off, sticky
\* whether anything follows it
Round(x, half, sticky) ==
  IF half /\ (sticky \/ x.frac[Limbs] % 2 = 1) THEN FloatUp(x) ELSE x

\* int / int of Python for a >= 0 and b > 0: the double nearest to a / b
truediv(a, b) ==
  IF a = 0 THEN FloatZero
  ELSE LET e == Exponent(a, b)
           num == IF e >= 0 THEN a ELSE a * 2^(0 - e)
           den == IF e >= 0 THEN b * 2^e ELSE b
           r0 == num - den
           r1 == (r0 * Base) % den
           r2 == (r1 * Base) % den
           r3 == (r2 * Base) % den
           r4 == (r3 * Base) % den
       IN  Round([exp |-> e,
                  frac |-> <<(r0 * Base) \div den, (r1 * Base) \div den,
                             (r2 * Base) \div den, (r3 * Base) \div den>>],
                 2 * r4 >= den, 2 * r4 > den)

\* the double a Frac is rounded to
Double(f) == truediv(f.num, f.den)

\* float(n) for an int n >= 0
float(n) == truediv(n, 1)

\* x * n of Python for a double x >= 0 and an int 0 < n < Base / 2
float_mul(x, n) ==
  IF x = FloatZero THEN FloatZero
  ELSE LET v4 == x.frac[4] * n
           v3 == x.frac[3] * n + v4 \div Base
           v2 == x.frac[2] * n + v3 \div Base
           v1 == x.frac[1] * n + v2 \div Base
           top == n + v1 \div Base
           k == Exponent(top, 1)
           low == 2^k
           high == Base \div low
           cut == (v4 % Base) % low
       IN  Round([exp |-> x.exp + k,
                  frac |-> <<(top % low) * high + (v1 % Base) \div low,
                             ((v1 % Base) % low) * high + (v2 % Base) \div low,
                             ((v2 % Base) % low) * high + (v3 % Base) \div low,
                             ((v3 % Base) % low) * high + (v4 % Base) \div low>>],
                 k > 0 /\ 2 * cut >= low, k > 0 /\ (2 * cut) % low # 0)

ZeroTotals == [stars |-> 0, forks |-> 0, size |-> 0, watchers |-> 0, issues |-> 0]

\* what the page renders: which view, and the rows of the language chart
Page(view, rows) == [view |-> view, lang_data |-> rows]
Nothing == Page("nothing", <<>>)

\* activity_analysis: None, or the dict analyze_user_activity returns
Activity(types, names) ==
  [isNone |-> FALSE, event_types |-> types, repo_activity |-> names]
NoActivity == [isNone |-> TRUE, event_types |-> <<>>, repo_activity |-> <<>>]

\* ------------------------------------------------------- extract_tech_stack
tech_keywords ==
  << <<"r", "e", "a", "c", "t">>,
     <<"v", "u", "e">>,
     <<"a", "n", "g", "u", "l", "a", "r">>,
     <<"d", "j", "a", "n", "g", "o">>,
     <<"f", "l", "a", "s", "k">>,
     <<"e", "x", "p", "r", "e", "s", "s">>,
     <<"s", "p", "r", "i", "n", "g">>,
     <<"n", "o", "d", "e">>,
     <<"p", "y", "t", "h", "o", "n">>,
     <<"j", "a", "v", "a", "s", "c", "r", "i", "p", "t">>,
     <<"t", "y", "p", "e", "s", "c", "r", "i", "p", "t">>,
     <<"j", "a", "v", "a">>,
     <<"g", "o">>,
     <<"r", "u", "s", "t">>,
     <<"d", "o", "c", "k", "e", "r">>,
     <<"k", "u", "b", "e", "r", "n", "e", "t", "e", "s">>,
     <<"a", "w", "s">>,
     <<"a", "z", "u", "r", "e">>,
     <<"g", "c", "p">>,
     <<"t", "e", "r", "r", "a", "f", "o", "r", "m">>,
     <<"a", "n", "s", "i", "b", "l", "e">>,
     <<"p", "o", "s", "t", "g", "r", "e", "s", "q", "l">>,
     <<"m", "y", "s", "q", "l">>,
     <<"m", "o", "n", "g", "o", "d", "b">>,
     <<"r", "e", "d", "i", "s">>,
     <<"g", "r", "a", "p", "h", "q", "l">>,
     <<"w", "e", "b", "p", "a", "c", "k">>,
     <<"b", "a", "b", "e", "l">>,
     <<"j", "e", "s", "t">>,
     <<"m", "o", "c", "h", "a">>,
     <<"p", "y", "t", "e", "s", "t">>,
     <<"j", "e", "n", "k", "i", "n", "s">>,
     <<"g", "i", "t", "h", "u", "b", " ", "a", "c", "t", "i", "o", "n", "s">>,
     <<"t", "r", "a", "v", "i", "s">>,
     <<"c", "i", "r", "c", "l", "e", "c", "i">> >>

\* the keywords found in the text as it is spelled
extract_tech_stack_cased(readme_text) ==
  IF readme_text.isNone \/ readme_text.value = <<>> THEN <<>>
  ELSE LET found == {n \in 1..Len(tech_keywords) :
                       Contains(readme_text.value, tech_keywords[n])}
           RECURSIVE scan(_)
           scan(n) == IF n > Len(tech_keywords) THEN <<>>
                      ELSE IF n \in found THEN <<tech_keywords[n]>> \o scan(n + 1)
                      ELSE scan(n + 1)
       IN  scan(1)

\* lines 122-143
extract_tech_stack(readme_text) ==
  IF readme_text.isNone \/ readme_text.value = <<>> THEN <<>>
  ELSE LET readme_lower == lower(readme_text.value)
           found == {n \in 1..Len(tech_keywords) :
                       Contains(readme_lower, tech_keywords[n])}
           RECURSIVE scan(_)
           scan(n) == IF n > Len(tech_keywords) THEN <<>>
                      ELSE IF n \in found THEN <<tech_keywords[n]>> \o scan(n + 1)
                      ELSE scan(n + 1)
       IN  scan(1)

\* ------------------------------------------------------------------- state
VARIABLES
  request_count,         \* self.request_count
  rate_limit_remaining,  \* self.rate_limit_remaining
  headers,               \* self.headers is non-empty (a token is configured)
  clock,                 \* time.time(), in tenths of a second
  listing,               \* the server's repository listing of the user
  limitedLeft,           \* rate-limited answers the server may still give
  faultsLeft,            \* error answers the server may still give
  quotas,                \* the X-RateLimit-Remaining headers the server sends
  readmes,               \* the README contents the server sends
  driver,                \* which caller drives the client
  stage,                 \* the caller's position
  pc,                    \* the client's position
  op,                    \* the client operation in progress
  url,                   \* make_request: the url requested
  depth,                 \* make_request: depth of the recursion (retries)
  attempts,              \* requests.get calls of this make_request call
  slept,                 \* time.sleep calls of this make_request call
  received,              \* make_request: the response requests.get returned
  issuedAt,              \* the clock at the last requests.get
  limited,               \* the rate-limited response of the enclosing frame
  ret,                   \* what make_request returned
  page,                  \* get_user_repos: page
  repos,                 \* get_user_repos: repos
  user_repos,            \* what get_user_repos returned
  exc,                   \* the exception that left the client, "" if none
  input,                 \* analyze_repos: the repos argument
  today,                 \* analyze_repos: today
  i,                     \* analyze_repos: index of the repo of the loop
  languages,             \* analyze_repos: languages
  contributors,          \* analyze_repos: contributors
  commits,               \* analyze_repos: commits
  repo_data,             \* analyze_repos: repo_data
  language_counter,      \* analyze_repos: language_counter
  license_counter,       \* analyze_repos: license_counter
  tech_stack_counter,    \* analyze_repos: tech_stack_counter
  totals,                \* analyze_repos: total_stars, total_forks, ...
  analysis,              \* what analyze_repos returned
  user_info,             \* app.py: user_info
  events,                \* app.py: events
  activity_analysis,     \* app.py: activity_analysis
  shown,                 \* app.py: what the page renders
  repeat,                \* the caller calls analyze_repos a second time
  answers,               \* the server's answers during the first call
  served,                \* responses received during the second call
  first                  \* what the first call of analyze_repos returned

clientVars == <<request_count, rate_limit_remaining, headers>>
serverVars == <<listing, limitedLeft, faultsLeft, quotas, readmes>>
requestVars == <<url, depth, attempts, slept, received, issuedAt, limited, ret>>
listVars == <<page, repos, user_repos>>
loopVars == <<languages, contributors, commits>>
foldVars ==
  <<today, i, repo_data, language_counter, license_counter, tech_stack_counter, totals>>
analyzeVars == <<input, loopVars, foldVars, analysis>>
appVars == <<user_info, events, activity_analysis, shown>>
replayVars == <<repeat, answers, served, first>>
vars ==
  <<clientVars, clock, serverVars, driver, stage, pc, op, requestVars, listVars,
    exc, analyzeVars, appVars, replayVars>>

\* GitHubRepoAnalyzer.__init__ and the state of a fresh process
InitClient ==
  /\ request_count = 0
  /\ rate_limit_remaining = DefaultRateLimit
  /\ clock = StartClock
  /\ pc = "idle"
  /\ op = "none"
  /\ url = Url("none", 0)
  /\ depth = 0
  /\ attempts = 0
  /\ slept = 0
  /\ received = None
  /\ issuedAt = 0
  /\ limited = None
  /\ ret = None
  /\ page = 0
  /\ repos = <<>>
  /\ user_repos = NoneList
  /\ exc = ""
  /\ input = NoneList
  /\ today = 0
  /\ i = 0
  /\ languages = <<>>
  /\ contributors = <<>>
  /\ commits = <<>>
  /\ repo_data = <<>>
  /\ language_counter = <<>>
  /\ license_counter = <<>>
  /\ tech_stack_counter = <<>>
  /\ totals = ZeroTotals
  /\ analysis = None
  /\ user_info = "unset"
  /\ events = NoneList
  /\ activity_analysis = NoActivity
  /\ shown = Nothing
  /\ answers = <<>>
  /\ served = 0
  /\ first = None

\* ------------------------------------------------------------ make_request
\* a client that sleeps before a request when it has a token
Throttled_token == IF headers THEN 1 ELSE 0

\* lines 28-29: the time.sleep calls before a request
Throttled == IF headers THEN 0 ELSE 1

\* a request sent without line 25
Send_uncounted ==
  /\ request_count' = request_count
  /\ clock' = clock + (IF headers THEN 0 ELSE ThrottleDelay)
  /\ issuedAt' = clock'
  /\ pc' = "wait"

\* lines 25-31: count the request, throttle when anonymous, requests.get
Send ==
  /\ request_count' = request_count + 1
  /\ clock' = clock + (IF headers THEN 0 ELSE ThrottleDelay)
  /\ issuedAt' = clock'
  /\ pc' = "wait"

\* url = ...; response = self.make_request(url): a fresh call sends at once
Call(o, a) ==
  /\ op' = o
  /\ url' = Url(o, a)
  /\ depth' = 0
  /\ attempts' = 1
  /\ slept' = Throttled
  /\ received' = None
  /\ limited' = None
  /\ ret' = None
  /\ Send

\* X-RateLimit-Remaining of a response: absent (None) or a value
RemainingHeaders == quotas

\* the response headers and body a server may send for an error
ErrorResponses ==
  { [status |-> s, text |-> b.text, json |-> b.json, remaining |-> h,
     reset |-> None, items |-> <<>>, content |-> NoContent] :
       s \in ErrorStatuses, b \in ErrorBodies, h \in RemainingHeaders }

\* X-RateLimit-Reset values (epoch seconds) around the current time
ResetHeaders == {None, Some((clock \div 10) - 5), Some((clock \div 10) + 3)}

\* a client that takes no response for a rate-limited one
IsRateLimited_never(r) == FALSE

\* response.status_code == 403 and 'rate limit' in response.text.lower()
IsRateLimited(r) == r.status = 403 /\ Contains(lower(r.text), rate_limit)

\* the header read from the responses with status 200 only
UpdateRateLimit_ok(r) ==
  rate_limit_remaining' =
    IF r.remaining # None /\ r.status = 200 THEN r.remaining[1]
    ELSE rate_limit_remaining

\* lines 34-35: 'X-RateLimit-Remaining' in response.headers: int(...) of it
UpdateRateLimit(r) ==
  rate_limit_remaining' =
    IF r.remaining # None THEN r.remaining[1] ELSE rate_limit_remaining

\* int(response.headers.get('X-RateLimit-Reset', time.time() + 60)), in seconds
reset_time(r, now) ==
  IF r.reset # None THEN r.reset[1] ELSE (now + DefaultResetDelay) \div 10

\* the wait without the buffer
sleep_time_unbuffered(r, now) == Max(reset_time(r, now) * 10 - now, 0)

\* max(reset_time - time.time(), 0) + 10, in tenths of a second
sleep_time(r, now) == Max(reset_time(r, now) * 10 - now, 0) + RetryBuffer

\* what lines 46-50 do with a response that is not rate-limited
Outcome(r) ==
  IF r.status # 200
    THEN IF r.json = "dict" THEN "none" ELSE "raise"
    ELSE "response"

\* what the client reads of a response
Digest(r) ==
  [limited |-> IsRateLimited(r), outcome |-> Outcome(r), remaining |-> r.remaining,
   reset |-> r.reset, items |-> r.items, content |-> r.content]

\* the caller that calls analyze_repos twice has the server answer the second
\* call as it answered the first
recording == repeat /\ stage = "analyzing"
replaying == repeat /\ stage = "again"

Served(r) ==
  /\ replaying => (served < Len(answers) /\ Digest(r) = answers[served + 1])
  /\ answers' = IF recording THEN Append(answers, Digest(r)) ELSE answers
  /\ served' = IF replaying THEN served + 1 ELSE served

\* lines 33-44: a rate-limited 403: sleep until the reset plus the buffer, then
\* return self.make_request(url), which counts and sends the request again
RateLimited(r) ==
  /\ pc = "wait"
  /\ IsRateLimited(r)
  /\ replaying \/ limitedLeft > 0
  /\ Served(r)
  /\ UpdateRateLimit(r)
  /\ limited' = Some(r)
  /\ received' = Some(r)
  /\ request_count' = request_count + 1
  /\ clock' = clock + sleep_time(r, clock) + (IF headers THEN 0 ELSE ThrottleDelay)
  /\ issuedAt' = clock'
  /\ limitedLeft' = IF replaying THEN limitedLeft ELSE limitedLeft - 1
  /\ depth' = depth + 1
  /\ attempts' = attempts + 1
  /\ slept' = slept + 1 + Throttled
  /\ pc' = "wait"
  /\ UNCHANGED <<headers, listing, faultsLeft, quotas, readmes, driver, stage, op, url,
                 ret, listVars, exc, analyzeVars, appVars, repeat, first>>

make_request_rate_limited ==
  \E e \in ErrorResponses :
    \E x \in ResetHeaders \cup {answers[n].reset : n \in (served + 1)..Len(answers)} :
      RateLimited([e EXCEPT !.reset = x])

\* lines 46-48 with a JSON object as the body: report and return None
Failed(r) ==
  /\ pc = "wait"
  /\ ~IsRateLimited(r)
  /\ Outcome(r) = "none"
  /\ replaying \/ faultsLeft > 0
  /\ Served(r)
  /\ UpdateRateLimit(r)
  /\ faultsLeft' = IF replaying THEN faultsLeft ELSE faultsLeft - 1
  /\ ret' = None
  /\ received' = Some(r)
  /\ limited' = None
  /\ pc' = "ret"
  /\ UNCHANGED <<request_count, headers, clock, listing, limitedLeft, quotas, readmes, driver, stage, op,
                 url, depth, attempts, slept, issuedAt, listVars, exc, analyzeVars,
                 appVars, repeat, first>>

make_request_error == \E r \in ErrorResponses : Failed(r)

\* line 47 with a body that is no JSON: response.json() raises
Raised(r) ==
  /\ pc = "wait"
  /\ ~IsRateLimited(r)
  /\ Outcome(r) = "raise"
  /\ replaying \/ faultsLeft > 0
  /\ Served(r)
  /\ UpdateRateLimit(r)
  /\ faultsLeft' = IF replaying THEN faultsLeft ELSE faultsLeft - 1
  /\ received' = Some(r)
  /\ limited' = None
  /\ pc' = "raised"
  /\ exc' = "JSONDecodeError"
  /\ UNCHANGED <<request_count, headers, clock, listing, limitedLeft, quotas, readmes, driver, stage, op,
                 url, depth, attempts, slept, issuedAt, ret, listVars, analyzeVars,
                 appVars, repeat, first>>

make_request_raise == \E r \in ErrorResponses : Raised(r)

\* the 200 responses a server may send for a url
OkBodies(u) ==
  CASE u.op = "get_user_repos" ->
         {[json |-> "list", items |-> PageOf(listing, u.arg, u.per_page),
           content |-> NoContent]}
    [] u.op = "get_repo_languages" ->
         {[json |-> "dict", items |-> <<[key |-> "Python", count |-> 1000]>>,
           content |-> NoContent]}
    [] u.op = "get_repo_contributors" ->
         {[json |-> "list", items |-> <<[login |-> "a"], [login |-> "b"]>>,
           content |-> NoContent]}
    [] u.op = "get_repo_commits" ->
         {[json |-> "list", items |-> <<[sha |-> "c1"]>>, content |-> NoContent]}
    [] u.op = "get_repo_readme" ->
         {[json |-> "dict", items |-> <<>>, content |-> c] : c \in readmes}
    [] u.op = "get_user_activity" ->
         {[json |-> "list", items |-> e, content |-> NoContent] :
            e \in {<<>>, <<[type |-> "PushEvent", repo |-> [name |-> "u/1"]],
                           [type |-> "PushEvent"]>>}}
    [] OTHER -> {[json |-> "dict", items |-> <<>>, content |-> NoContent]}

OkResponses(u) ==
  { [status |-> 200, text |-> EmptyText, json |-> b.json, remaining |-> h,
     reset |-> None, items |-> b.items, content |-> b.content] :
       b \in OkBodies(u), h \in RemainingHeaders }

\* line 50: a 200 is returned to the caller
Returned(r) ==
  /\ pc = "wait"
  /\ ~IsRateLimited(r)
  /\ Outcome(r) = "response"
  /\ Served(r)
  /\ UpdateRateLimit(r)
  /\ ret' = Some(r)
  /\ received' = Some(r)
  /\ limited' = None
  /\ pc' = "ret"
  /\ UNCHANGED <<request_count, headers, clock, serverVars, driver, stage, op,
                 url, depth, attempts, slept, issuedAt, listVars, exc, analyzeVars,
                 appVars, repeat, first>>

make_request_ok == \E r \in OkResponses(url) : Returned(r)

\* bool(response) of a requests.Response: its status is below 400
Truthy(response) == response # None /\ response[1].status < 400

\* ---------------------------------------------------------- get_user_repos
\* the loop breaking on a failed page instead of returning None
get_user_repos_step_break(response, repos_, page_) ==
  IF ~Truthy(response)
    THEN [returns |-> TRUE, result |-> List(repos_), repos |-> repos_, page |-> page_]
    ELSE LET page_repos == response[1].items IN
         IF page_repos = <<>>
           THEN [returns |-> TRUE, result |-> List(repos_),
                 repos |-> repos_, page |-> page_]
           ELSE IF Len(page_repos) < per_page
             THEN [returns |-> TRUE, result |-> List(repos_ \o page_repos),
                   repos |-> repos_ \o page_repos, page |-> page_]
             ELSE [returns |-> FALSE, result |-> NoneList,
                   repos |-> repos_ \o page_repos, page |-> page_ + 1]

\* the loop without the last-page check of lines 77-79
get_user_repos_step_nolast(response, repos_, page_) ==
  IF ~Truthy(response)
    THEN [returns |-> TRUE, result |-> NoneList, repos |-> repos_, page |-> page_]
    ELSE LET page_repos == response[1].items IN
         IF page_repos = <<>>
           THEN [returns |-> TRUE, result |-> List(repos_),
                 repos |-> repos_, page |-> page_]
           ELSE [returns |-> FALSE, result |-> NoneList,
                 repos |-> repos_ \o page_repos, page |-> page_ + 1]

\* the loop leaving out a last page that is not full
get_user_repos_step_short(response, repos_, page_) ==
  IF ~Truthy(response)
    THEN [returns |-> TRUE, result |-> NoneList, repos |-> repos_, page |-> page_]
    ELSE LET page_repos == response[1].items IN
         IF page_repos = <<>> \/ Len(page_repos) < per_page
           THEN [returns |-> TRUE, result |-> List(repos_),
                 repos |-> repos_, page |-> page_]
           ELSE [returns |-> FALSE, result |-> NoneList,
                 repos |-> repos_ \o page_repos, page |-> page_ + 1]

\* lines 68-83: one turn of the loop on the response of the page requested
get_user_repos_step(response, repos_, page_) ==
  IF ~Truthy(response)
    THEN [returns |-> TRUE, result |-> NoneList, repos |-> repos_, page |-> page_]
    ELSE LET page_repos == response[1].items IN
         IF page_repos = <<>>
           THEN [returns |-> TRUE, result |-> List(repos_),
                 repos |-> repos_, page |-> page_]
           ELSE IF Len(page_repos) < per_page
             THEN [returns |-> TRUE, result |-> List(repos_ \o page_repos),
                   repos |-> repos_ \o page_repos, page |-> page_]
             ELSE [returns |-> FALSE, result |-> NoneList,
                   repos |-> repos_ \o page_repos, page |-> page_ + 1]

\* lines 60-66: repos = [], page = 1 and the first request
get_user_repos_call ==
  /\ page' = 1
  /\ repos' = <<>>
  /\ user_repos' = NoneList
  /\ Call("get_user_repos", 1)

\* what a client operation leaves behind when it returns to its caller
Return ==
  /\ pc' = "idle"
  /\ ret' = None
  /\ received' = None
  /\ UNCHANGED <<request_count, clock, op, url, depth, attempts, slept, issuedAt,
                 limited>>

get_user_repos_page ==
  /\ pc = "ret"
  /\ op = "get_user_repos"
  /\ LET s == get_user_repos_step(ret, repos, page) IN
       /\ repos' = s.repos
       /\ page' = s.page
       /\ IF s.returns
            THEN /\ user_repos' = s.result
                 /\ stage' = "listed"
                 /\ Return
            ELSE /\ Call("get_user_repos", s.page)
                 /\ UNCHANGED <<user_repos, stage>>
  /\ UNCHANGED <<rate_limit_remaining, headers, serverVars, driver, exc,
                 analyzeVars, appVars, replayVars>>

\* ------------------------------------------------------------ sub-fetches
\* lines 56, 89, 97, 103, 120, 292: response.json() if response else the default
get_user_info(response) == IF Truthy(response) THEN "profile" ELSE "None"
get_user_activity(response) ==
  IF Truthy(response) THEN List(response[1].items) ELSE List(<<>>)
get_repo_languages(response) == IF Truthy(response) THEN response[1].items ELSE <<>>
get_repo_contributors(response) == IF Truthy(response) THEN response[1].items ELSE <<>>
get_repo_commits(response) == IF Truthy(response) THEN response[1].items ELSE <<>>

\* lines 109-113: the decoded README, None, or the exception of the decoding
get_repo_readme(response) ==
  IF Truthy(response) /\ response[1].status = 200
    THEN LET content == response[1].content IN
         IF content.present
           THEN IF ~content.padded
                  THEN [exc |-> "binascii.Error", value |-> NoneList]
                ELSE IF ~content.utf8
                  THEN [exc |-> "UnicodeDecodeError", value |-> NoneList]
                ELSE [exc |-> "", value |-> List(content.text)]
           ELSE [exc |-> "", value |-> NoneList]
    ELSE [exc |-> "", value |-> NoneList]

\* ------------------------------------------------------------ analyze_repos
\* x or d
Or(x, d) == IF x = Null \/ x = "" THEN d ELSE x

\* (today - datetime.strptime(stamp[:10], "%Y-%m-%d")).days
DaysSince(now, stamp) == (now - stamp.day * DayTenths) \div DayTenths

\* lines 164-189 and 201-227: the entry of repo_data for one repo
RepoEntry(repo, now, languages_, contributors_, commits_, readme, tech_stack) ==
  [name |-> repo.name, owner |-> repo.owner,
   language |-> Or(repo.language, "Unknown"), languages |-> languages_,
   stars |-> repo.stargazers_count, forks |-> repo.forks_count,
   size |-> repo.size, description |-> Or(repo.description, "No description"),
   created_at |-> repo.created_at, updated_at |-> repo.updated_at,
   watchers |-> repo.watchers_count, open_issues |-> repo.open_issues_count,
   license |-> Or(repo.license, "None"), is_fork |-> repo.fork,
   archived |-> repo.archived,
   repo_age_days |-> DaysSince(now, repo.created_at),
   days_since_update |-> DaysSince(now, repo.updated_at),
   contributors_count |-> Len(contributors_), commits_count |-> Len(commits_),
   tech_stack |-> tech_stack, readme |-> readme]

\* counting the repos of a known language only
CountLanguage_known(c, language) ==
  IF language # "Unknown" THEN CounterAdd(c, language) ELSE c

\* lines 229-230: if language: language_counter.update([language])
CountLanguage(c, language) == IF language # "" THEN CounterAdd(c, language) ELSE c

\* the totals with the stars of a repo left out when it has forks
AddTotals_skip(t, e) ==
  [stars |-> IF e.forks > 0 THEN t.stars ELSE t.stars + e.stars,
   forks |-> t.forks + e.forks, size |-> t.size + e.size,
   watchers |-> t.watchers + e.watchers, issues |-> t.issues + e.open_issues]

\* lines 232-236
AddTotals(t, e) ==
  [stars |-> t.stars + e.stars, forks |-> t.forks + e.forks, size |-> t.size + e.size,
   watchers |-> t.watchers + e.watchers, issues |-> t.issues + e.open_issues]

RECURSIVE SumOf(_, _)
SumOf(rd, f) == IF rd = <<>> THEN 0 ELSE rd[1][f] + SumOf(Tail(rd), f)

\* sum(1 for repo in repo_data if ...)
Count(rd, flags) == Cardinality({n \in 1..Len(rd) : flags[n]})

\* sum(...) / len(repo_data) if repo_data else 0
Avg(total, n) == IF n # 0 THEN Frac(total, n) ELSE Frac(0, 1)

\* a repo updated 90 days ago counted as active
IsActive_inclusive(e) == e.days_since_update <= ActiveDays

IsActive(e) == e.days_since_update < ActiveDays
IsArchived(e) == e.archived
IsFork(e) == e.is_fork

\* lines 239-286: the summary of the repos folded so far
Summary(in, rd, lc, lic, tc, tot, rc, rl) ==
  LET top == IF most_common(lc) # <<>> THEN most_common(lc)[1]
             ELSE [key |-> "None", count |-> 0]
  IN [repo_count |-> Len(in), repos |-> rd,
      most_used_language |-> top.key, language_count |-> top.count,
      total_stars |-> tot.stars, total_forks |-> tot.forks,
      total_size |-> tot.size, total_watchers |-> tot.watchers,
      total_issues |-> tot.issues,
      language_distribution |-> lc, license_distribution |-> lic,
      tech_stack_distribution |-> tc,
      avg_stars |-> Avg(tot.stars, Len(in)), avg_forks |-> Avg(tot.forks, Len(in)),
      avg_watchers |-> Avg(tot.watchers, Len(in)),
      avg_issues |-> Avg(tot.issues, Len(in)),
      active_repos |-> Count(rd, [n \in 1..Len(rd) |-> IsActive(rd[n])]),
      archived_repos |-> Count(rd, [n \in 1..Len(rd) |-> IsArchived(rd[n])]),
      fork_repos |-> Count(rd, [n \in 1..Len(rd) |-> IsFork(rd[n])]),
      avg_repo_age |-> Avg(SumOf(rd, "repo_age_days"), Len(rd)),
      avg_days_since_update |-> Avg(SumOf(rd, "days_since_update"), Len(rd)),
      avg_contributors |-> Avg(SumOf(rd, "contributors_count"), Len(rd)),
      avg_commits |-> Avg(SumOf(rd, "commits_count"), Len(rd)),
      request_count |-> rc, rate_limit_remaining |-> rl]

\* a guard that lets the empty list through
NotRepos_none(in) == in.isNone

\* line 147: if not repos
NotRepos(in) == in.isNone \/ in.value = <<>>

\* accumulators kept on the analyzer from one call to the next
ResetFold_stale ==
  /\ today' = clock
  /\ repo_data' = <<>>
  /\ language_counter' = language_counter
  /\ license_counter' = <<>>
  /\ tech_stack_counter' = <<>>
  /\ totals' = ZeroTotals

\* lines 151-160: the accumulators of a call start empty
ResetFold ==
  /\ today' = clock
  /\ repo_data' = <<>>
  /\ language_counter' = <<>>
  /\ license_counter' = <<>>
  /\ tech_stack_counter' = <<>>
  /\ totals' = ZeroTotals

\* the stage of the caller once analyze_repos has returned
Returns == IF repeat /\ stage \in {"start", "analyzing"} THEN "between" ELSE "analyzed"

\* lines 147-163 and the first sub-fetch of the first repo; a loop over no
\* repo at all goes straight to lines 239-286
analyze_repos_call(in) ==
  /\ input' = in
  /\ IF NotRepos(in)
       THEN /\ analysis' = None
            /\ stage' = Returns
            /\ pc' = "idle"
            /\ UNCHANGED <<request_count, clock, op, requestVars, loopVars,
                           foldVars, first, exc>>
     ELSE IF in.isNone
       THEN /\ pc' = "raised"
            /\ exc' = "TypeError"
            /\ UNCHANGED <<request_count, clock, stage, op, requestVars, loopVars,
                           foldVars, first, analysis>>
     ELSE IF in.value = <<>>
       THEN /\ ResetFold
            /\ analysis' = Some(Summary(<<>>, <<>>, <<>>, <<>>, <<>>, ZeroTotals,
                                        request_count, rate_limit_remaining))
            /\ first' = IF repeat /\ stage = "start" THEN analysis' ELSE first
            /\ stage' = Returns
            /\ pc' = "idle"
            /\ UNCHANGED <<request_count, clock, op, requestVars, loopVars, i, exc>>
       ELSE /\ ResetFold
            /\ analysis' = None
            /\ stage' = IF repeat /\ stage = "between" THEN "again" ELSE "analyzing"
            /\ i' = 1
            /\ Call("get_repo_languages", in.value[1].name)
            /\ UNCHANGED <<loopVars, first, exc>>

\* the loop going from the languages straight to the commits
get_repo_languages_return_skip ==
  /\ pc = "ret"
  /\ op = "get_repo_languages"
  /\ languages' = get_repo_languages(ret)
  /\ Call("get_repo_commits", input.value[i].name)
  /\ UNCHANGED <<rate_limit_remaining, headers, serverVars, driver, stage, listVars,
                 exc, input, contributors, commits, foldVars, analysis, appVars,
                 replayVars>>

\* lines 192-193
get_repo_languages_return ==
  /\ pc = "ret"
  /\ op = "get_repo_languages"
  /\ languages' = get_repo_languages(ret)
  /\ Call("get_repo_contributors", input.value[i].name)
  /\ UNCHANGED <<rate_limit_remaining, headers, serverVars, driver, stage, listVars,
                 exc, input, contributors, commits, foldVars, analysis, appVars,
                 replayVars>>

\* lines 193-194
get_repo_contributors_return ==
  /\ pc = "ret"
  /\ op = "get_repo_contributors"
  /\ contributors' = get_repo_contributors(ret)
  /\ Call("get_repo_commits", input.value[i].name)
  /\ UNCHANGED <<rate_limit_remaining, headers, serverVars, driver, stage, listVars,
                 exc, input, languages, commits, foldVars, analysis, appVars,
                 replayVars>>

\* lines 194-195
get_repo_commits_return ==
  /\ pc = "ret"
  /\ op = "get_repo_commits"
  /\ commits' = get_repo_commits(ret)
  /\ Call("get_repo_readme", input.value[i].name)
  /\ UNCHANGED <<rate_limit_remaining, headers, serverVars, driver, stage, listVars,
                 exc, input, languages, contributors, foldVars, analysis, appVars,
                 replayVars>>

\* lines 195-237, and after the last repo lines 239-286
get_repo_readme_return ==
  /\ pc = "ret"
  /\ op = "get_repo_readme"
  /\ LET readme == get_repo_readme(ret) IN
     IF readme.exc # ""
       THEN /\ pc' = "raised"
            /\ exc' = readme.exc
            /\ UNCHANGED <<request_count, clock, stage, op, requestVars, foldVars,
                           analysis, first>>
       ELSE LET tech_stack == extract_tech_stack(readme.value)
                e == RepoEntry(input.value[i], today, languages, contributors,
                               commits, readme.value, tech_stack)
                rd == Append(repo_data, e)
                lc == CountLanguage(language_counter, e.language)
                lic == CounterAdd(license_counter, e.license)
                tc == CounterUpdate(tech_stack_counter, tech_stack)
                tot == AddTotals(totals, e)
            IN  /\ repo_data' = rd
                /\ language_counter' = lc
                /\ license_counter' = lic
                /\ tech_stack_counter' = tc
                /\ totals' = tot
                /\ exc' = exc
                /\ today' = today
                /\ IF i < Len(input.value)
                     THEN /\ i' = i + 1
                          /\ Call("get_repo_languages", input.value[i + 1].name)
                          /\ UNCHANGED <<stage, analysis, first>>
                     ELSE LET result == Summary(input.value, rd, lc, lic, tc, tot,
                                                request_count, rate_limit_remaining)
                          IN  /\ analysis' = Some(result)
                              /\ first' = IF recording THEN Some(result) ELSE first
                              /\ stage' = Returns
                              /\ i' = i
                              /\ Return
  /\ UNCHANGED <<rate_limit_remaining, headers, serverVars, driver, listVars, input,
                 loopVars, appVars, repeat, answers, served>>

\* ----------------------------------------- a caller of analyze_repos itself
Inputs == {NoneList} \cup {List(l) : l \in SmallListings}

InitAnalyze ==
  /\ InitClient
  /\ faultsLeft = MaxFaults
  /\ driver = "direct"
  /\ stage = "start"
  /\ repeat = FALSE
  /\ listing = <<>>
  /\ headers \in BOOLEAN
  /\ limitedLeft = 0
  /\ quotas = {None, Some(7)}
  /\ readmes = ReadmeContents

direct_call ==
  /\ driver = "direct"
  /\ stage = "start"
  /\ pc = "idle"
  /\ \E in \in Inputs : analyze_repos_call(in)
  /\ UNCHANGED <<rate_limit_remaining, headers, serverVars, driver, listVars,
                 appVars, repeat, answers, served>>

NextAnalyze ==
  \/ direct_call
  \/ make_request_error
  \/ make_request_raise
  \/ make_request_ok
  \/ get_repo_languages_return
  \/ get_repo_contributors_return
  \/ get_repo_commits_return
  \/ get_repo_readme_return

SpecAnalyze == InitAnalyze /\ [][NextAnalyze]_vars

\* ------------------- a caller of analyze_repos, twice on the same argument,
\* the server answering the second call as it answered the first
InitTwice ==
  /\ InitClient
  /\ faultsLeft = MaxFaults
  /\ driver = "direct"
  /\ stage = "start"
  /\ repeat = TRUE
  /\ listing = <<>>
  /\ headers = TRUE
  /\ limitedLeft = 0
  /\ quotas = {Some(7)}
  /\ readmes = ReadmeContents

direct_again ==
  /\ driver = "direct"
  /\ stage = "between"
  /\ pc = "idle"
  /\ analyze_repos_call(input)
  /\ UNCHANGED <<rate_limit_remaining, headers, serverVars, driver, listVars,
                 appVars, repeat, answers, served>>

NextTwice ==
  \/ direct_call
  \/ direct_again
  \/ make_request_error
  \/ make_request_raise
  \/ make_request_ok
  \/ get_repo_languages_return
  \/ get_repo_contributors_return
  \/ get_repo_commits_return
  \/ get_repo_readme_return

SpecTwice == InitTwice /\ [][NextTwice]_vars

\* ---------- a caller of analyze_repos on a longer listing, every request of
\* which the server answers with a 200
InitAverages ==
  /\ InitClient
  /\ faultsLeft = 0
  /\ driver = "listing"
  /\ stage = "start"
  /\ repeat = FALSE
  /\ listing \in LongListings
  /\ headers = TRUE
  /\ limitedLeft = 0
  /\ quotas = {Some(7)}
  /\ readmes = ReadmeContents

direct_listing ==
  /\ driver = "listing"
  /\ stage = "start"
  /\ pc = "idle"
  /\ analyze_repos_call(List(listing))
  /\ UNCHANGED <<rate_limit_remaining, headers, serverVars, driver, listVars,
                 appVars, repeat, answers, served>>

NextAverages ==
  \/ direct_listing
  \/ make_request_ok
  \/ get_repo_languages_return
  \/ get_repo_contributors_return
  \/ get_repo_commits_return
  \/ get_repo_readme_return

SpecAverages == InitAverages /\ [][NextAverages]_vars

\* ---------- a caller of analyze_repos on a listing whose READMEs are short
\* texts, every request of which the server answers with a 200
InitReadme ==
  /\ InitClient
  /\ faultsLeft = 0
  /\ driver = "listing"
  /\ stage = "start"
  /\ repeat = FALSE
  /\ listing \in {BigListing(k) : k \in 1..MaxRepos}
  /\ headers = TRUE
  /\ limitedLeft = 0
  /\ quotas = {Some(7)}
  /\ readmes = TextContents

SpecReadme == InitReadme /\ [][NextAverages]_vars

\* -------------------------------------------- a caller of get_user_repos only
InitPages ==
  /\ InitClient
  /\ faultsLeft = MaxFaults
  /\ driver = "pages"
  /\ stage = "start"
  /\ repeat = FALSE
  /\ listing \in BigListings
  /\ headers \in BOOLEAN
  /\ limitedLeft = MaxRateLimited
  /\ quotas = {None, Some(0), Some(7)}
  /\ readmes = ReadmeContents

pages_start ==
  /\ driver = "pages"
  /\ stage = "start"
  /\ pc = "idle"
  /\ get_user_repos_call
  /\ stage' = "repos"
  /\ UNCHANGED <<rate_limit_remaining, headers, serverVars, driver, exc,
                 analyzeVars, appVars, replayVars>>

NextPages ==
  \/ pages_start
  \/ make_request_rate_limited
  \/ make_request_error
  \/ make_request_raise
  \/ make_request_ok
  \/ get_user_repos_page

SpecPages == InitPages /\ [][NextPages]_vars

\* ------- a caller of get_user_repos on a one-page listing, against a server
\* that answers a request with a rate-limited 403 up to MaxRetries times and
\* then with something else. The process keeps running: time.sleep returns
\* and requests.get returns once the server has answered, so a step that is
\* possible is eventually taken.
InitRetry ==
  /\ InitClient
  /\ faultsLeft = 1
  /\ driver = "pages"
  /\ stage = "start"
  /\ repeat = FALSE
  /\ listing = BigListing(1)
  /\ headers \in BOOLEAN
  /\ limitedLeft = MaxRetries
  /\ quotas = {Some(7)}
  /\ readmes = ReadmeContents

SpecRetry == InitRetry /\ [][NextPages]_vars /\ WF_vars(NextPages)

\* ------------------------------------------------- app.py: the analysis page
\* analyze_user_activity, lines 294-313
RECURSIVE CountEvents(_, _, _)
CountEvents(evs, types, names) ==
  IF evs = <<>> THEN Activity(types, names)
  ELSE LET event == Head(evs)
       IN  CountEvents(Tail(evs), CounterAdd(types, event.type),
                       IF "repo" \in DOMAIN event
                         THEN CounterAdd(names, event.repo.name)
                         ELSE names)

analyze_user_activity(events_) ==
  IF events_.isNone \/ events_.value = <<>>
    THEN Activity(<<>>, <<>>)
    ELSE CountEvents(events_.value, <<>>, <<>>)

\* app.py line 78: analyze_user_activity(events) if events else None
ActivityOf(events_) ==
  IF events_.isNone \/ events_.value = <<>> THEN NoActivity
  ELSE analyze_user_activity(events_)

\* the chart rows without the filter
RECURSIVE lang_data_all(_)
lang_data_all(dist) ==
  IF dist = <<>> THEN <<>>
  ELSE <<[Language |-> Head(dist).key, Count |-> Head(dist).count]>>
         \o lang_data_all(Tail(dist))

\* app.py line 276: the chart rows of the language distribution
RECURSIVE lang_data(_)
lang_data(dist) ==
  IF dist = <<>> THEN <<>>
  ELSE LET k == Head(dist).key
           rest == lang_data(Tail(dist))
       IN  IF k # "" /\ k # "Unknown"
             THEN <<[Language |-> k, Count |-> Head(dist).count]>> \o rest
             ELSE rest

\* analyze_repos called whatever get_user_repos returned
Branch_always(repos_) ==
  /\ analyze_repos_call(repos_)
  /\ shown' = shown

\* app.py lines 80-85: the three outcomes of get_user_repos
Branch(repos_) ==
  IF repos_.isNone \/ repos_.value = <<>>
    THEN /\ shown' = Page(IF repos_.isNone THEN "error" ELSE "warning", <<>>)
         /\ stage' = "done"
         /\ pc' = "idle"
         /\ ret' = None
         /\ received' = None
         /\ UNCHANGED <<request_count, clock, op, url, depth, attempts, slept,
                        issuedAt, limited, exc, analyzeVars, first>>
    ELSE /\ analyze_repos_call(repos_)
         /\ shown' = shown

\* app.py lines 68-74: user_info when asked for, then the listing
app_start ==
  /\ driver = "app"
  /\ stage = "start"
  /\ pc = "idle"
  /\ \E include_user_info \in BOOLEAN :
       IF include_user_info
         THEN /\ Call("get_user_info", 0)
              /\ stage' = "info"
              /\ UNCHANGED <<user_info, listVars>>
         ELSE /\ user_info' = "None"
              /\ get_user_repos_call
              /\ stage' = "repos"
  /\ UNCHANGED <<rate_limit_remaining, headers, serverVars, driver, exc, analyzeVars,
                 events, activity_analysis, shown, replayVars>>

\* app.py lines 71-74: get_user_info has returned
app_user_info ==
  /\ driver = "app"
  /\ pc = "ret"
  /\ op = "get_user_info"
  /\ user_info' = get_user_info(ret)
  /\ get_user_repos_call
  /\ stage' = "repos"
  /\ UNCHANGED <<rate_limit_remaining, headers, serverVars, driver, exc, analyzeVars,
                 events, activity_analysis, shown, replayVars>>

\* app.py lines 77-85: get_user_repos has returned
app_repos ==
  /\ driver = "app"
  /\ stage = "listed"
  /\ pc = "idle"
  /\ \E include_activity \in BOOLEAN :
       IF include_activity
         THEN /\ Call("get_user_activity", 0)
              /\ stage' = "activity"
              /\ UNCHANGED <<events, activity_analysis, shown, exc, analyzeVars, first>>
         ELSE /\ events' = NoneList
              /\ activity_analysis' = NoActivity
              /\ Branch(user_repos)
  /\ UNCHANGED <<rate_limit_remaining, headers, serverVars, driver, listVars,
                 user_info, repeat, answers, served>>

\* app.py lines 77-85: get_user_activity has returned
app_activity ==
  /\ driver = "app"
  /\ pc = "ret"
  /\ op = "get_user_activity"
  /\ events' = get_user_activity(ret)
  /\ activity_analysis' = ActivityOf(events')
  /\ Branch(user_repos)
  /\ UNCHANGED <<rate_limit_remaining, headers, serverVars, driver, listVars,
                 user_info, repeat, answers, served>>

\* app.py lines 88-276: analyze_repos has returned and the page is rendered
app_render ==
  /\ driver = "app"
  /\ stage = "analyzed"
  /\ pc = "idle"
  /\ IF analysis = None
       THEN /\ pc' = "raised"
            /\ exc' = "TypeError"
            /\ UNCHANGED <<stage, shown>>
       ELSE /\ shown' = Page("analysis", lang_data(analysis[1].language_distribution))
            /\ stage' = "done"
            /\ UNCHANGED <<pc, exc>>
  /\ UNCHANGED <<clientVars, clock, serverVars, driver, op, requestVars, listVars,
                 analyzeVars, user_info, events, activity_analysis, replayVars>>

InitApp ==
  /\ InitClient
  /\ faultsLeft = 1
  /\ driver = "app"
  /\ stage = "start"
  /\ repeat = FALSE
  /\ listing \in SmallListings
  /\ headers = TRUE
  /\ limitedLeft = 0
  /\ quotas = {Some(7)}
  /\ readmes = ReadmeContents

Next ==
  \/ app_start
  \/ app_user_info
  \/ app_repos
  \/ app_activity
  \/ app_render
  \/ make_request_error
  \/ make_request_raise
  \/ make_request_ok
  \/ get_user_repos_page
  \/ get_repo_languages_return
  \/ get_repo_contributors_return
  \/ get_repo_commits_return
  \/ get_repo_readme_return

Spec == InitApp /\ [][Next]_vars

\* ---------- the analysis page against a server that also rate-limits requests
InitLimited ==
  /\ InitClient
  /\ faultsLeft = 1
  /\ driver = "app"
  /\ stage = "start"
  /\ repeat = FALSE
  /\ listing = BigListing(1)
  /\ headers = TRUE
  /\ limitedLeft = MaxRateLimited
  /\ quotas = {Some(7)}
  /\ readmes = ReadmeContents

NextLimited ==
  \/ Next
  \/ make_request_rate_limited

SpecLimited == InitLimited /\ [][NextLimited]_vars

\* ================================================================== claims
\* C1: whenever make_request yields no response for a page of the listing,
\* the first page or a later one after full pages were fetched, get_user_repos
\* returns None at once, not the repos fetched so far and not an empty list.
C1_FailedPageReturnsNone ==
  [][(pc = "ret" /\ op = "get_user_repos" /\ ret = None)
       => (stage' = "listed" /\ pc' = "idle" /\ user_repos' = NoneList
           /\ request_count' = request_count)]_vars

C1_Witness ==
  /\ stage = "listed"
  /\ user_repos = NoneList
  /\ page = 2
  /\ Len(repos) = 100

\* C2: after a rate-limited 403 whose X-RateLimit-Reset header is T, the same
\* url is requested again exactly once, and not before T + 10 s.
C2_RetryAfterReset ==
  [][(depth' = depth + 1 /\ limited'[1].reset # None)
       => /\ IsRateLimited(limited'[1])
          /\ issuedAt' >= limited'[1].reset[1] * 10 + 100
          /\ url' = url
          /\ request_count' = request_count + 1
          /\ attempts' = attempts + 1
          /\ pc' = "wait"]_vars

C2_Witness ==
  /\ pc = "wait"
  /\ depth = 1
  /\ limited # None
  /\ limited[1].reset # None
  /\ limited[1].reset[1] * 10 > issuedAt - 100 - ThrottleDelay

\* C3 as stated: a response that is not 2xx and is no rate-limited 403 (a 403
\* without the marker included) is followed by no further request of the call
\* and make_request returns None.
C3_Original ==
  [][\A r \in ErrorResponses :
       (r.status \notin 200..299 /\ ~IsRateLimited(r) /\ (Failed(r) \/ Raised(r)))
         => (request_count' = request_count /\ pc' = "ret" /\ ret' = None
             /\ exc' = "")]_vars

\* C4 as stated: no exception leaves a client operation.
C4_Original == exc = ""

\* C5 as stated: once analyze_repos runs on a listing, no failed sub-request
\* keeps it from returning a summary, and the summary holds every listed repo.
C5_Original ==
  /\ exc # "JSONDecodeError"
  /\ (analysis # None => Len(analysis[1].repos) = Len(input.value))

\* C6: get_user_repos requests page 1 first, with per_page = 100; every later
\* request is either the retry of the same page after a rate-limited 403 or the
\* next page after a page of exactly 100 entries.
C6_PageOrder ==
  [][(op' = "get_user_repos" /\ request_count' # request_count)
       => /\ url'.per_page = 100
          /\ request_count' = request_count + 1
          /\ \/ pc = "idle" /\ url'.arg = 1
             \/ pc = "wait" /\ depth' = depth + 1 /\ url' = url
             \/ /\ pc = "ret"
                /\ ret # None
                /\ Len(ret[1].items) = 100
                /\ url'.arg = url.arg + 1]_vars

C6_Witness ==
  /\ op = "get_user_repos"
  /\ pc = "wait"
  /\ url.arg = 2
  /\ depth = 1

RECURSIVE SumCounts(_)
SumCounts(c) == IF c = <<>> THEN 0 ELSE c[1].count + SumCounts(Tail(c))

RECURSIVE SumField(_, _)
SumField(rs, f) == IF rs = <<>> THEN 0 ELSE rs[1][f] + SumField(Tail(rs), f)

\* C7: the counts of language_distribution of a summary add up to repo_count.
C7_LanguagesSumToRepoCount ==
  analysis # None
    => SumCounts(analysis[1].language_distribution) = analysis[1].repo_count

C7_Witness ==
  /\ analysis # None
  /\ analysis[1].repo_count = 2
  /\ HasKey(analysis[1].language_distribution, "Unknown")
  /\ input.value[1].language = Null

\* avg * n == total as Python evaluates it on the doubles
TimesCountIs(avg, n, total) == float_mul(Double(avg), n) = float(total)

\* avg * n is total or one of the two doubles next to it
TimesCountNear(avg, n, total) ==
  IF total = 0 THEN float_mul(Double(avg), n) = FloatZero
  ELSE float_mul(Double(avg), n) \in
         {float(total), FloatUp(float(total)), FloatDown(float(total))}

\* C8 as stated: in a summary avg_stars * repo_count == total_stars, and
\* likewise forks, watchers and issues.
C8_Original ==
  analysis # None =>
    LET a == analysis[1]
        n == a.repo_count
    IN  /\ TimesCountIs(a.avg_stars, n, a.total_stars)
        /\ TimesCountIs(a.avg_forks, n, a.total_forks)
        /\ TimesCountIs(a.avg_watchers, n, a.total_watchers)
        /\ TimesCountIs(a.avg_issues, n, a.total_issues)

\* C8 amended: in a summary repo_count > 0, total_stars is the sum of the
\* stars of the listed repos and avg_stars * repo_count is total_stars up to
\* the rounding of the division and of the product, that is total_stars or a
\* double next to it; likewise forks, watchers and issues.
C8_AveragesTimesCount ==
  analysis # None =>
    LET a == analysis[1]
        n == a.repo_count
    IN  /\ n = Len(input.value)
        /\ n > 0
        /\ a.total_stars = SumField(input.value, "stargazers_count")
        /\ a.total_forks = SumField(input.value, "forks_count")
        /\ a.total_watchers = SumField(input.value, "watchers_count")
        /\ a.total_issues = SumField(input.value, "open_issues_count")
        /\ a.avg_stars = Frac(a.total_stars, n)
        /\ TimesCountNear(a.avg_stars, n, a.total_stars)
        /\ TimesCountNear(a.avg_forks, n, a.total_forks)
        /\ TimesCountNear(a.avg_watchers, n, a.total_watchers)
        /\ TimesCountNear(a.avg_issues, n, a.total_issues)

C8_Witness ==
  /\ analysis # None
  /\ analysis[1].repo_count = 7
  /\ analysis[1].total_stars = 29
  /\ float_mul(Double(analysis[1].avg_stars), 7) = FloatUp(float(29))

\* C9 as stated: analyze_repos on an empty list returns a summary whose
\* repo_count, total_stars and avg_stars are 0.
C9_Original ==
  (stage = "analyzed" /\ input = List(<<>>))
    => /\ analysis # None
       /\ analysis[1].repo_count = 0
       /\ analysis[1].total_stars = 0
       /\ analysis[1].avg_stars.num = 0

\* C9 amended: analyze_repos on an empty list (as on None) returns None: it
\* issues no request, raises nothing and builds no summary, so that every
\* summary has repo_count > 0 and nothing is divided by zero.
C9_EmptyReturnsNone ==
  /\ (stage = "analyzed" /\ NotRepos(input))
       => (analysis = None /\ exc = "" /\ request_count = 0)
  /\ analysis # None
       => (analysis[1].repo_count > 0 /\ analysis[1].avg_stars.den > 0)

C9_Witness ==
  /\ stage = "analyzed"
  /\ input = List(<<>>)
  /\ analysis = None

\* C10 as stated: the second of two calls of analyze_repos on the same
\* argument, the server answering alike, returns the summary of the first.
C10_Original ==
  (stage = "analyzed" /\ first # None /\ analysis # None) => analysis = first

\* C10 amended: the two summaries agree in every field but request_count, which
\* has grown by the number of requests of the second call.
C10_SameButRequestCount ==
  (stage = "analyzed" /\ first # None /\ analysis # None)
    => /\ [analysis[1] EXCEPT !.request_count = first[1].request_count] = first[1]
       /\ analysis[1].request_count = first[1].request_count + Len(answers)
       /\ served = Len(answers)

C10_Witness ==
  /\ stage = "analyzed"
  /\ first # None
  /\ analysis # None
  /\ faultsLeft < MaxFaults
  /\ Len(input.value) = 2

\* the count of key k in a Counter, 0 when it has no such key
CountOf(c, k) ==
  IF HasKey(c, k) THEN c[CHOOSE n \in 1..Len(c) : c[n].key = k].count ELSE 0

\* C11: when the page shows an analysis, every listed repo is counted in
\* repo_count, the repos whose language is null are those counted under
\* "Unknown" in language_distribution, and the rows of the language chart are
\* the other keys with their counts: no row is "Unknown" or empty.
C11_UnknownNotCharted ==
  shown.view = "analysis" =>
    LET a == analysis[1]
        rs == user_repos.value
    IN  /\ a.repo_count = Len(rs)
        /\ CountOf(a.language_distribution, "Unknown")
             = Cardinality({n \in 1..Len(rs) : rs[n].language = Null})
        /\ \A n \in 1..Len(rs) :
             rs[n].language = Null => a.repos[n].language = "Unknown"
        /\ \A m \in 1..Len(shown.lang_data) :
             /\ shown.lang_data[m].Language \notin {"", "Unknown"}
             /\ shown.lang_data[m].Count
                  = CountOf(a.language_distribution, shown.lang_data[m].Language)
        /\ \A n \in 1..Len(a.language_distribution) :
             a.language_distribution[n].key # "Unknown"
               => \E m \in 1..Len(shown.lang_data) :
                    shown.lang_data[m].Language = a.language_distribution[n].key

C11_Witness ==
  /\ shown.view = "analysis"
  /\ user_repos.value[1].language = Null
  /\ analysis[1].repo_count = 2
  /\ CountOf(analysis[1].language_distribution, "Unknown") = 1
  /\ Len(shown.lang_data) = 1

\* the language buckets of a listing, repo by repo
Buckets(rs) == [n \in 1..Len(rs) |-> Or(rs[n].language, "Unknown")]

\* where a bucket first occurs in a listing
FirstOf(bs, k) == CHOOSE n \in 1..Len(bs) : bs[n] = k /\ \A m \in 1..(n - 1) : bs[m] # k

\* C12: in a summary language_distribution counts the repos of each bucket,
\* most_used_language is a bucket of the highest count and language_count is
\* that count; of several buckets of the highest count it is the one that
\* occurs first in the listing. Languages [Python, Python, Go] with stars
\* [10, 5, 0] give Python, {Python: 2, Go: 1}, total_stars 15 and avg_stars 5.
C12_MostUsedLanguage ==
  analysis # None =>
    LET a == analysis[1]
        d == a.language_distribution
        bs == Buckets(input.value)
    IN  /\ \A n \in 1..Len(bs) :
             CountOf(d, bs[n]) = Cardinality({m \in 1..Len(bs) : bs[m] = bs[n]})
        /\ \A n \in 1..Len(d) : \E m \in 1..Len(bs) : bs[m] = d[n].key
        /\ HasKey(d, a.most_used_language)
        /\ a.language_count = CountOf(d, a.most_used_language)
        /\ \A n \in 1..Len(d) :
             /\ d[n].count <= a.language_count
             /\ d[n].count = a.language_count
                  => FirstOf(bs, a.most_used_language) <= FirstOf(bs, d[n].key)
        /\ (bs = <<"Python", "Python", "Go">>
              /\ [n \in 1..3 |-> input.value[n].stargazers_count] = <<10, 5, 0>>)
             => /\ a.most_used_language = "Python"
                /\ d = <<[key |-> "Python", count |-> 2], [key |-> "Go", count |-> 1]>>
                /\ a.total_stars = 15
                /\ Double(a.avg_stars) = float(5)

\* a tie of three buckets, the first of the listing being neither the first
\* nor the last of the pool
C12_Witness ==
  /\ analysis # None
  /\ Buckets(input.value) = <<"Python", "Go", "Unknown">>
  /\ analysis[1].most_used_language = "Python"
  /\ analysis[1].language_count = 1

\* whether a list holds a value
Holds(l, v) == \E m \in 1..Len(l) : l[m] = v

\* C13: the tech_stack of a repo holds each keyword of the vocabulary that
\* occurs in the lowercased README text, once, and nothing else; it is empty
\* for a README that is None or empty; "Docker docker" gives docker once; and
\* the count of a keyword in tech_stack_distribution is the number of repos
\* whose tech_stack holds it.
C13_KeywordOncePerRepo ==
  /\ \A n \in 1..Len(repo_data) :
       LET e == repo_data[n]
           ts == e.tech_stack
       IN  /\ \A a \in 1..Len(ts) : \A b \in 1..Len(ts) : ts[a] = ts[b] => a = b
           /\ \A a \in 1..Len(ts) : Holds(tech_keywords, ts[a])
           /\ \A k \in 1..Len(tech_keywords) :
                Holds(ts, tech_keywords[k])
                  <=> /\ ~e.readme.isNone
                      /\ Contains(lower(e.readme.value), tech_keywords[k])
           /\ (e.readme.isNone \/ e.readme.value = <<>>) => ts = <<>>
           /\ e.readme = List(DockerText) => ts = <<<<"d", "o", "c", "k", "e", "r">>>>
  /\ analysis # None =>
       LET a == analysis[1]
       IN  \A k \in 1..Len(tech_keywords) :
             /\ CountOf(a.tech_stack_distribution, tech_keywords[k])
                  = Cardinality({n \in 1..Len(a.repos) :
                                   Holds(a.repos[n].tech_stack, tech_keywords[k])})
             /\ CountOf(a.tech_stack_distribution, tech_keywords[k]) <= a.repo_count

C13_Witness ==
  /\ analysis # None
  /\ Len(analysis[1].repos) = 2
  /\ analysis[1].repos[1].readme
       = List(<<"D", "o", "c", "k", "e", "r", " ", "d", "o", "c", "k", "e", "r">>)
  /\ analysis[1].repos[1].tech_stack = <<<<"d", "o", "c", "k", "e", "r">>>>
  /\ analysis[1].repos[2].readme = List(<<>>)
  /\ analysis[1].repos[2].tech_stack = <<>>
  /\ CountOf(analysis[1].tech_stack_distribution, <<"d", "o", "c", "k", "e", "r">>) = 1

\* the time between now and the start of the day a timestamp names
SinceDate(now, stamp) == now - stamp.day * DayTenths

\* C14: days_since_update of a repo is the whole days between now and the
\* date of its update timestamp, and active_repos is the number of listed
\* repos for which that is below 90, whatever the listing.
C14_ActiveWithinNinetyDays ==
  analysis # None =>
    LET a == analysis[1]
        rs == input.value
    IN  /\ \A n \in 1..Len(rs) :
             /\ a.repos[n].days_since_update * DayTenths <= SinceDate(today, rs[n].updated_at)
             /\ SinceDate(today, rs[n].updated_at)
                  < (a.repos[n].days_since_update + 1) * DayTenths
        /\ a.active_repos
             = Cardinality({n \in 1..Len(rs) :
                              SinceDate(today, rs[n].updated_at) < 90 * DayTenths})

\* a repo updated 90 days ago, late in the day, next to one updated 89 days ago
C14_Witness ==
  /\ analysis # None
  /\ analysis[1].repo_count = 2
  /\ analysis[1].repos[1].days_since_update = 90
  /\ input.value[1].updated_at.sec > 0
  /\ analysis[1].repos[2].days_since_update = 89
  /\ analysis[1].active_repos = 1

\* C15: the page shows the error message exactly when the handler is done
\* and get_user_repos returned None, the empty-state message exactly when it
\* is done and get_user_repos returned an empty list, and in both cases
\* nothing else: analyze_repos was not called. analyze_repos is called, and
\* an analysis shown, only with the non-empty list get_user_repos returned.
C15_ThreeOutcomes ==
  /\ shown.view = "error" <=> (stage = "done" /\ user_repos.isNone)
  /\ shown.view = "warning" <=> (stage = "done" /\ user_repos = List(<<>>))
  /\ shown.view \in {"error", "warning"}
       => (input = NoneList /\ analysis = None /\ repo_data = <<>> /\ today = 0)
  /\ (stage \in {"analyzing", "analyzed"} \/ input # NoneList \/ shown.view = "analysis")
       => (~user_repos.isNone /\ user_repos.value # <<>> /\ input = user_repos)

C15_Witness ==
  /\ shown.view = "error"
  /\ user_repos.isNone
  /\ listing # <<>>
  /\ input = NoneList
  /\ exc = ""

\* the rate-limited answers the server has given to the one request of
\* SpecRetry
LimitedAnswers == MaxRetries - limitedLeft

Done == pc \in {"ret", "raised"}

Issued ==
  IF pc = "wait" THEN attempts' - attempts
  ELSE IF pc' = "wait" THEN attempts' ELSE 0

\* C17: the request counter is the number of GET requests the client has
\* issued since it was created: 0 at first, one more with every request
\* issued, the retries after a rate-limited response included, and unchanged
\* by every other step, so it never decreases and is never reset; the
\* request_count of a summary is the counter when analyze_repos returns it.
C17_RequestCounter ==
  /\ [](stage = "start" => request_count = 0)
  /\ [][request_count' = request_count + Issued]_vars
  /\ [][(analysis' # analysis /\ analysis' # None)
          => analysis'[1].request_count = request_count']_vars

C17_Witness ==
  /\ stage = "done"
  /\ analysis # None
  /\ limitedLeft = 0
  /\ user_info = "profile"
  /\ ~events.isNone
  /\ request_count = 7 + MaxRateLimited
  /\ analysis[1].request_count = request_count

\* C18: rate_limit_remaining is 60 before any response; a response that
\* carries the remaining-quota header, whatever its status, sets it to the
\* header's value, a response without the header leaves it as it was, and no
\* other step changes it: it is the header of the last response that had one.
C18_RemainingFollowsHeader ==
  /\ [](stage = "start" => rate_limit_remaining = 60)
  /\ [][rate_limit_remaining' =
          IF pc = "wait" /\ received'[1].remaining # None
            THEN received'[1].remaining[1]
            ELSE rate_limit_remaining]_vars

C18_Witness ==
  /\ pc = "ret"
  /\ depth > 0
  /\ received[1].status = 404
  /\ received[1].remaining = None
  /\ rate_limit_remaining = 0

\* the place of a sub-fetch among the four of a repo
Rank(o) ==
  CASE o = "get_repo_languages" -> 1
    [] o = "get_repo_contributors" -> 2
    [] o = "get_repo_commits" -> 3
    [] o = "get_repo_readme" -> 4
    [] OTHER -> 0

\* C19: requests go out one at a time: a request is issued only when the one
\* before it has returned. analyze_repos fetches repo by repo in the order of
\* the listing and, for each repo, languages, contributors, commits, README:
\* the first request is for the languages of the first repo, each later one
\* follows the return of the sub-fetch before it, and the languages of a repo
\* are asked for only once the README of the repo before it has returned.
\* Without rate-limit retries a finished call has issued 4 requests per repo.
C19_SequentialSubFetches ==
  /\ [][pc' = "wait" =>
          /\ pc \in {"idle", "ret"}
          /\ Rank(op') > 0
          /\ url'.op = op'
          /\ url'.arg = input'.value[i'].name
          /\ IF pc = "idle"
               THEN Rank(op') = 1 /\ i' = 1
             ELSE IF Rank(op') = 1
               THEN Rank(op) = 4 /\ i' = i + 1 /\ url.arg = input.value[i].name
             ELSE Rank(op') = Rank(op) + 1 /\ i' = i /\ url.arg = url'.arg]_vars
  /\ []((stage = "analyzed" /\ analysis # None)
          => request_count = 4 * Len(input.value))

C19_Witness ==
  /\ stage = "analyzed"
  /\ analysis # None
  /\ Len(input.value) = MaxRepos
  /\ request_count = 4 * MaxRepos
  /\ Len(analysis[1].repos) = MaxRepos

\* a 403 whose text names the rate limit, as the server sent it
RateLimitAnswer(r) == r.status = 403 /\ Contains(lower(r.text), rate_limit)

\* a response that is neither a 200 nor a rate-limited 403
FailureAnswer(r) == r.status # 200 /\ ~RateLimitAnswer(r)

\* C20: a rate-limited response is never surfaced as a failure. It does not
\* end make_request; make_request returns None only right after a response
\* that is neither a 200 nor a rate-limited 403, and get_user_repos returns
\* None only on such a response. As long as the server has sent no such
\* response, get_user_repos has returned a list and every repo analyzed has
\* the languages, contributors and commits the server sent, not the defaults.
C20_RateLimitNeverFails ==
  /\ [][(pc = "wait" /\ RateLimitAnswer(received'[1])) => pc' = "wait"]_vars
  /\ []((pc = "ret" /\ ret = None) => (received # None /\ FailureAnswer(received[1])))
  /\ [][(stage # "listed" /\ stage' = "listed" /\ user_repos'.isNone)
          => (pc = "ret" /\ received # None /\ FailureAnswer(received[1]))]_vars
  /\ [](faultsLeft = 1 =>
          /\ stage \in {"listed", "activity", "analyzing", "analyzed", "done"}
               => ~user_repos.isNone
          /\ \A n \in 1..Len(repo_data) :
               /\ repo_data[n].languages # <<>>
               /\ repo_data[n].contributors_count = 2
               /\ repo_data[n].commits_count = 1)

C20_Witness ==
  /\ pc = "ret"
  /\ op = "get_repo_contributors"
  /\ depth > 0
  /\ limitedLeft < MaxRateLimited
  /\ ret # None
  /\ faultsLeft = 1
  /\ ~user_repos.isNone

\* every page request so far was answered with a 200: the server has sent
\* neither an error nor a rate-limited 403
AllPagesSucceeded == faultsLeft = MaxFaults /\ limitedLeft = MaxRateLimited

\* C21: when every page request succeeds, get_user_repos returns the n repos
\* of the listing, each once and in the order of the listing, after
\* floor(n / 100) + 1 page requests: the last request of a listing of a
\* positive multiple of 100 repos returns an empty page, and an empty listing
\* yields the empty list after one request.
C21_WholeListing ==
  /\ []((stage = "listed" /\ AllPagesSucceeded) =>
          /\ ~user_repos.isNone
          /\ user_repos.value = listing
          /\ \A m, n \in 1..Len(user_repos.value) :
               user_repos.value[m].name = user_repos.value[n].name => m = n
          /\ request_count = (Len(listing) \div 100) + 1
          /\ page = (Len(listing) \div 100) + 1)
  /\ [][(stage # "listed" /\ stage' = "listed" /\ AllPagesSucceeded) =>
          /\ ret # None
          /\ (Len(listing) % 100 = 0) <=> (ret[1].items = <<>>)]_vars

C21_Witness ==
  /\ stage = "listed"
  /\ AllPagesSucceeded
  /\ Len(listing) = 100
  /\ request_count = 2
  /\ Len(user_repos.value) = 100
  /\ user_repos.value = listing

====
